---- MODULE Spec2Model ----
(***************************************************************************)
(* A model of forecast_index.py: the four FMRC query types (ModelRun,      *)
(* ConstantOffset, ConstantForecast, BestEstimate) and ForecastIndex.sel.  *)
(*                                                                         *)
(* Timestamps and timedeltas are whole hours: a timestamp is the number of *)
(* hours since midnight of day 0, so its `hour` is t % 24.  Positions are  *)
(* 0-based as in Python; an axis is a TLA+ sequence, so position i of an   *)
(* axis is its element i + 1.                                              *)
(***************************************************************************)
EXTENDS Integers, Sequences, FiniteSets, TLC

VARIABLES
    indexes,      \* self._indexes: [reference_time, period], the two axes
    dummy_name,   \* self.dummy_name
    model,        \* self.model: "None" or "HRRR"
    created,      \* history: the fields as ForecastIndex.__init__ set them
    sliced,       \* history: an earlier plain-axis sel sub-selected its copy
    pc,           \* "idle" between calls, "done" when a call has returned/raised
    labels,       \* the `labels` mapping of the call that has just finished
    result        \* what that call returned or raised

vars == <<indexes, dummy_name, model, created, sliced, pc, labels, result>>

----------------------------------------------------------------------------
(* Bounds of the model *)

MaxTimeStart == 6      \* reference-time axes start at hour 0 .. MaxTimeStart
MaxTimeLen == 2        \* reference-time axes hold 1 .. MaxTimeLen timestamps
MaxShortLen == 2       \* short period axes hold 1 .. MaxShortLen periods
MaxPeriodLen == 21     \* long period axes hold MaxPeriodLen - 2 .. MaxPeriodLen

(* Program constants *)

HRRRShortSteps == 19   \* slice(19), nsteps = 19
HRRRShortHours == 18   \* the 18h threshold of the extended range
HRRRCycle == 6         \* hour % 6, hour != 6

TimeName == "time"     \* self.names["reference_time"]
PeriodName == "step"   \* self.names["period"]

Models == {"None", "HRRR"}
DummyNames == {"forecast", "fmrc"}

----------------------------------------------------------------------------
(* pandas index primitives, on sorted axes of unique values *)

Min(a, b) == IF a < b THEN a ELSE b

Range(s) == {s[i] : i \in 1..Len(s)}

\* np.arange(lo, hi)
Arange(lo, hi) == [k \in 1..(IF hi > lo THEN hi - lo ELSE 0) |-> lo + k - 1]

\* np.repeat(x, n)
Repeat(x, n) == [k \in 1..n |-> x]

\* pd.Timestamp.hour / DatetimeIndex.hour
Hour(t) == t % 24

\* Index.get_indexer([x]) on a unique index: the position of x, or -1
GetIndexer(axis, x) ==
    IF \E i \in 1..Len(axis) : axis[i] = x
    THEN (CHOOSE i \in 1..Len(axis) : axis[i] = x) - 1
    ELSE -1

\* Index.get_loc(x) raises KeyError when x is absent
HasLoc(axis, x) == x \in Range(axis)

GetLoc(axis, x) == CHOOSE i \in 0..(Len(axis) - 1) : axis[i + 1] = x

\* Index.get_slice_bound(x, side) on a monotonic increasing index
GetSliceBound(axis, x, side) ==
    IF side = "left"
    THEN Cardinality({i \in 1..Len(axis) : axis[i] < x})
    ELSE Cardinality({i \in 1..Len(axis) : axis[i] <= x})

\* index[i] for an integer i: negative positions count from the end
InBounds(axis, i) == -Len(axis) <= i /\ i < Len(axis)

GetItem(axis, i) == IF i < 0 THEN axis[Len(axis) + i + 1] ELSE axis[i + 1]

----------------------------------------------------------------------------
(* Positional selectors: an int, slice(None), slice(stop) or a position array *)

NoSel == [kind |-> "none", pos |-> 0, arr |-> <<>>]
IntSel(i) == [kind |-> "int", pos |-> i, arr |-> <<>>]
SliceAll == [kind |-> "slice", pos |-> -1, arr |-> <<>>]
SliceStop(n) == [kind |-> "slice", pos |-> n, arr |-> <<>>]
ArraySel(a) == [kind |-> "array", pos |-> 0, arr |-> a]

\* the positions a selector addresses on an axis of n elements, in order
Positions(sel, n) ==
    CASE sel.kind = "int" -> <<IF sel.pos < 0 THEN n + sel.pos ELSE sel.pos>>
      [] sel.kind = "slice" -> Arange(0, IF sel.pos < 0 THEN n ELSE Min(sel.pos, n))
      [] sel.kind = "array" -> sel.arr
      [] OTHER -> Arange(0, n)

\* whether axis[sel] raises IndexError
SelInBounds(axis, sel) ==
    CASE sel.kind = "int" -> InBounds(axis, sel.pos)
      [] sel.kind = "array" -> \A k \in 1..Len(sel.arr) : InBounds(axis, sel.arr[k])
      [] OTHER -> TRUE

\* axis[sel]: the values selected, as a sequence
Take(axis, sel) ==
    LET ps == Positions(sel, Len(axis))
    IN  [k \in 1..Len(ps) |-> GetItem(axis, ps[k])]

----------------------------------------------------------------------------
(* Query objects.  `arg` is ModelRun.time, ConstantOffset.step,            *)
(* ConstantForecast.time or BestEstimate.asof; has_arg is FALSE exactly    *)
(* for BestEstimate(asof=None).                                            *)

ModelRun(time) == [type |-> "ModelRun", has_arg |-> TRUE, arg |-> time]
ConstantOffset(step) == [type |-> "ConstantOffset", has_arg |-> TRUE, arg |-> step]
ConstantForecast(time) == [type |-> "ConstantForecast", has_arg |-> TRUE, arg |-> time]
BestEstimate == [type |-> "BestEstimate", has_arg |-> FALSE, arg |-> 0]
BestEstimateAsof(asof) == [type |-> "BestEstimate", has_arg |-> TRUE, arg |-> asof]

\* what a get_indexer call returns or raises
Raised(err) == [status |-> err, time_idxr |-> NoSel, period_idxr |-> NoSel]
Indexers(t, p) == [status |-> "ok", time_idxr |-> t, period_idxr |-> p]

\* ModelRun.get_indexer
ModelRunGetIndexer(m, time_index, period_index, time) ==
    IF ~HasLoc(time_index, time)
    THEN Raised("KeyError")
    ELSE Indexers(IntSel(GetLoc(time_index, time)),
                  IF m = "HRRR" /\ Hour(time) % HRRRCycle # 0
                  THEN SliceStop(HRRRShortSteps)
                  ELSE SliceAll)

\* variant of ConstantOffsetMask with the test of ConstantForecast, hour != 6
ConstantOffsetMaskHour6(time_index) ==
    SelectSeq(Arange(0, Len(time_index)),
              LAMBDA i : ~(Hour(time_index[i + 1]) # HRRRCycle))

\* ConstantOffset.get_indexer, the reference times its model_mask keeps
ConstantOffsetMask(time_index) ==
    SelectSeq(Arange(0, Len(time_index)),
              LAMBDA i : ~(Hour(time_index[i + 1]) % HRRRCycle # 0))

\* ConstantOffset.get_indexer
ConstantOffsetGetIndexer(m, time_index, period_index, step) ==
    Indexers(IF m = "HRRR" /\ step > HRRRShortHours
             THEN ArraySel(ConstantOffsetMask(time_index))
             ELSE SliceAll,
             IntSel(GetIndexer(period_index, step)))

\* ConstantForecast.get_indexer, the bounds of the window of reference times
ConstantForecastLeft(time_index, period_index, target) ==
    GetSliceBound(time_index, target - GetItem(period_index, -1), "left")

\* variant of ConstantForecastRight with side="left"
ConstantForecastRightExclusive(time_index, target) ==
    GetSliceBound(time_index, target, "left")

ConstantForecastRight(time_index, target) ==
    GetSliceBound(time_index, target, "right")

\* ConstantForecast.get_indexer
ConstantForecastGetIndexer(m, time_index, period_index, target) ==
    LET left == ConstantForecastLeft(time_index, period_index, target)
        right == ConstantForecastRight(time_index, target)
        needed_time_idxs == Arange(left, right)
        NeededStep(i) == target - time_index[i + 1]
        NeededStepIdx(i) == GetIndexer(period_index, NeededStep(i))
        ModelMask(i) ==
            ~(m = "HRRR" /\ Hour(time_index[i + 1]) # HRRRCycle
                         /\ NeededStep(i) > HRRRShortHours)
        kept == SelectSeq(needed_time_idxs,
                          LAMBDA i : ModelMask(i) /\ NeededStepIdx(i) # -1)
    IN  Indexers(ArraySel(kept),
                 ArraySel([k \in 1..Len(kept) |-> NeededStepIdx(kept[k])]))

\* BestEstimate.__post_init__: `self.since` is an attribute the class does
\* not define, so the comparison is reached only to raise AttributeError
BestEstimatePostInit(has_asof, asof) ==
    IF has_asof THEN "AttributeError" ELSE "ok"

\* BestEstimate.get_indexer
BestEstimateGetIndexer(m, time_index, period_index, has_asof, asof) ==
    IF GetItem(period_index, 0) # 0
    THEN Raised("ValueError")
    ELSE IF has_asof /\ ~HasLoc(time_index, asof)
    THEN Raised("KeyError")
    ELSE LET first_index == 0
             last_index == IF has_asof THEN GetLoc(time_index, asof)
                           ELSE Len(time_index) - 1
             nsteps == IF m = "HRRR"
                          /\ Hour(GetItem(time_index, last_index)) % HRRRCycle # 0
                       THEN HRRRShortSteps
                       ELSE Len(period_index)
         IN  Indexers(ArraySel(Arange(first_index, last_index)
                               \o Repeat(last_index, nsteps)),
                      ArraySel(Repeat(0, last_index - first_index)
                               \o Arange(0, nsteps)))

\* label.get_indexer(self.model, time_index, period_index)
GetIndexerOf(label, m, time_index, period_index) ==
    CASE label.type = "ModelRun" ->
            ModelRunGetIndexer(m, time_index, period_index, label.arg)
      [] label.type = "ConstantOffset" ->
            ConstantOffsetGetIndexer(m, time_index, period_index, label.arg)
      [] label.type = "ConstantForecast" ->
            ConstantForecastGetIndexer(m, time_index, period_index, label.arg)
      [] label.type = "BestEstimate" ->
            BestEstimateGetIndexer(m, time_index, period_index,
                                   label.has_arg, label.arg)

----------------------------------------------------------------------------
(* ForecastIndex.sel *)

NoAxis == [has |-> FALSE, values |-> <<>>]
Axis(v) == [has |-> TRUE, values |-> v]

\* An IndexSelResult, or the exception raised instead of it.
\*   time_idxr, period_idxr   dim_indexers[time_name], dim_indexers[period_name]
\*   indexer_dim              the dimension of array indexers (xr.Variable)
\*   new_time, new_period     indexes[time_name], indexes[period_name]
\*   valid_time*              variables["valid_time"] / indexes["valid_time"]
\*   calls                    the strategies and per-axis lookups that ran
NoResult ==
    [status |-> "none", time_idxr |-> NoSel, period_idxr |-> NoSel,
     indexer_dim |-> "", new_time |-> NoAxis, new_period |-> NoAxis,
     has_valid_time |-> FALSE, valid_time_dim |-> "", valid_time |-> <<>>,
     drop_coords |-> <<>>, calls |-> <<>>]

Raise(err, calls) == [NoResult EXCEPT !.status = err, !.calls = calls]

\* variant of RejectsMixed without the test of line 285
RejectsNothing(lbls, dummy) == FALSE

\* line 285: the dummy key together with any other key
RejectsMixed(lbls, dummy) ==
    dummy \in DOMAIN lbls /\ Cardinality(DOMAIN lbls) # 1

\* variant of CopyIndexes without the copy: new_indexes = self._indexes
AliasIndexes(ix) == [obj |-> ix, aliased |-> TRUE]

\* copy.deepcopy(self._indexes): a new object with equal axes
CopyIndexes(ix) == [obj |-> ix, aliased |-> FALSE]

\* line 373: the drop_coords of a cube-aware result
DropCoords == <<"forecast">>

\* time_index[time_idxr] + period_index[period_idxr], a scalar broadcast
ValidTime(time_index, time_idxr, period_index, period_idxr) ==
    LET ts == Take(time_index, time_idxr)
        ps == Take(period_index, period_idxr)
    IN  IF time_idxr.kind = "int" THEN [k \in 1..Len(ps) |-> ts[1] + ps[k]]
        ELSE IF period_idxr.kind = "int" THEN [k \in 1..Len(ts) |-> ts[k] + ps[1]]
        ELSE [k \in 1..Len(ts) |-> ts[k] + ps[k]]

\* lines 300-319: selection along time_name and/or period_name.  A scalar
\* label is looked up exactly (PandasIndex.sel); the sub-selected axes are
\* written to new_indexes.  Returns the result and the Indexes object that
\* self._indexes refers to afterwards.
SelPlainAxes(ix, lbls) ==
    LET new_indexes == CopyIndexes(ix)
        Self(obj) == IF new_indexes.aliased THEN obj ELSE ix
        has_t == TimeName \in DOMAIN lbls
        has_p == PeriodName \in DOMAIN lbls
        t_found == has_t => HasLoc(ix.reference_time, lbls[TimeName])
        p_found == has_p => HasLoc(ix.period, lbls[PeriodName])
        t_idxr == IF has_t /\ t_found
                  THEN IntSel(GetLoc(ix.reference_time, lbls[TimeName]))
                  ELSE NoSel
        p_idxr == IF has_p /\ p_found
                  THEN IntSel(GetLoc(ix.period, lbls[PeriodName]))
                  ELSE NoSel
        after_t == IF has_t /\ t_found
                   THEN [new_indexes.obj EXCEPT
                            !.reference_time = Take(@, t_idxr)]
                   ELSE new_indexes.obj
        after_p == IF has_p /\ p_found
                   THEN [after_t EXCEPT !.period = Take(@, p_idxr)]
                   ELSE after_t
        t_calls == IF has_t THEN <<"reference_time.sel">> ELSE <<>>
        p_calls == IF has_p THEN <<"period.sel">> ELSE <<>>
    IN  IF ~t_found
        THEN [out |-> Raise("KeyError", t_calls), self_indexes |-> Self(new_indexes.obj)]
        ELSE IF ~p_found
        THEN [out |-> Raise("KeyError", t_calls \o p_calls), self_indexes |-> Self(after_t)]
        ELSE [out |-> [NoResult EXCEPT
                          !.status = "ok",
                          !.time_idxr = t_idxr,
                          !.period_idxr = p_idxr,
                          !.new_time = Axis(after_p.reference_time),
                          !.new_period = Axis(after_p.period),
                          !.calls = t_calls \o p_calls],
              self_indexes |-> Self(after_p)]

\* lines 324-374: FMRC-style selection with the query object `label`
SelQuery(ix, dummy, m, label) ==
    LET time_index == ix.reference_time
        period_index == ix.period
        got == GetIndexerOf(label, m, time_index, period_index)
        calls == <<label.type>>
        is_cf == label.type = "ConstantForecast"
        array_join == label.type \in {"ConstantForecast", "BestEstimate"}
        base == [NoResult EXCEPT
                    !.status = "ok",
                    !.time_idxr = got.time_idxr,
                    !.period_idxr = got.period_idxr,
                    !.indexer_dim = CASE label.type = "ConstantForecast" -> TimeName
                                      [] label.type = "BestEstimate" -> "valid_time"
                                      [] OTHER -> "",
                    !.new_time = IF label.type \in {"ConstantOffset", "ConstantForecast"}
                                 THEN Axis(Take(time_index, got.time_idxr))
                                 ELSE NoAxis,
                    !.new_period = IF label.type = "ModelRun"
                                   THEN Axis(Take(period_index, got.period_idxr))
                                   ELSE NoAxis,
                    !.drop_coords = DropCoords,
                    !.calls = calls]
    IN  IF got.status # "ok" THEN Raise(got.status, calls)
        ELSE IF is_cf THEN base
        ELSE IF ~(SelInBounds(time_index, got.time_idxr)
                  /\ SelInBounds(period_index, got.period_idxr))
        THEN Raise("IndexError", calls)
        ELSE [base EXCEPT
                 !.has_valid_time = TRUE,
                 !.valid_time_dim = CASE label.type = "ConstantOffset" -> TimeName
                                      [] label.type = "ModelRun" -> PeriodName
                                      [] OTHER -> "valid_time",
                 !.valid_time = ValidTime(time_index, got.time_idxr,
                                          period_index, got.period_idxr)]

\* ForecastIndex.sel(labels) on the index (ix, dummy, m)
Sel(ix, dummy, m, lbls) ==
    IF RejectsMixed(lbls, dummy)
    THEN [out |-> Raise("ValueError", <<>>), self_indexes |-> ix]
    ELSE IF TimeName \in DOMAIN lbls \/ PeriodName \in DOMAIN lbls
    THEN IF dummy \in DOMAIN lbls
         THEN [out |-> Raise("ValueError", <<>>), self_indexes |-> ix]
         ELSE SelPlainAxes(ix, lbls)
    ELSE IF Cardinality(DOMAIN lbls) # 1 \/ DOMAIN lbls # {dummy}
    THEN [out |-> Raise("AssertionError", <<>>), self_indexes |-> ix]
    ELSE [out |-> SelQuery(ix, dummy, m, lbls[dummy]), self_indexes |-> ix]

----------------------------------------------------------------------------
(* The indexes and the requests of the model *)

\* an axis of n values from `start`, `stride` apart (pd.date_range and
\* pd.timedelta_range): sorted and unique
RegularAxis(start, stride, n) == [k \in 1..n |-> start + (k - 1) * stride]

TimeAxes ==
    {RegularAxis(s, d, n) : s \in 0..MaxTimeStart, d \in {1, 18}, n \in 1..MaxTimeLen}

PeriodLens == (1..MaxShortLen) \cup ((MaxPeriodLen - 2)..MaxPeriodLen)

PeriodAxes ==
    {RegularAxis(sd[1], sd[2], n) : sd \in {<<0, 1>>, <<0, 2>>, <<1, 1>>}, n \in PeriodLens}

\* the scenario of hourly reference times 00:00..23:00 and periods 0h..48h
ScenarioIndexes ==
    [reference_time |-> RegularAxis(0, 1, 24), period |-> RegularAxis(0, 1, 49)]

\* labels asked for: every value of the axis, and absent values beside them
TimeLabels == {t + d : t \in Range(indexes.reference_time), d \in {0, 1}}

PeriodLabels ==
    Range(indexes.period)
    \cup {GetItem(indexes.period, 0) + 1, GetItem(indexes.period, -1) + 1}

\* a few of them, for the requests that take several values
FewPeriodLabels ==
    {GetItem(indexes.period, 0), GetItem(indexes.period, -1),
     GetItem(indexes.period, -1) + 1}

\* valid times asked for: every sum on the grid, and the values around them
ValidTimes ==
    LET sums == {t + p : t \in Range(indexes.reference_time),
                         p \in Range(indexes.period)}
    IN  sums \cup {GetItem(indexes.reference_time, 0) + GetItem(indexes.period, 0) - 1,
                   GetItem(indexes.reference_time, -1) + GetItem(indexes.period, -1) + 1}

----------------------------------------------------------------------------
(* The state machine: an index is constructed, then sel is called on it    *)
(* any number of times.                                                    *)

\* ForecastIndex.__init__
Init ==
    /\ indexes \in [reference_time : TimeAxes, period : PeriodAxes] \cup {ScenarioIndexes}
    /\ dummy_name \in DummyNames
    /\ model \in Models
    /\ created = [indexes |-> indexes, dummy_name |-> dummy_name, model |-> model]
    /\ sliced = FALSE
    /\ pc = "idle"
    /\ labels = <<>>
    /\ result = NoResult

\* one call of self.sel(lbls)
CallSel(lbls) ==
    LET r == Sel(indexes, dummy_name, model, lbls)
    IN  /\ pc = "idle"
        /\ pc' = "done"
        /\ labels' = lbls
        /\ result' = r.out
        /\ indexes' = r.self_indexes
        /\ sliced' = (sliced \/ (r.out.status = "ok" /\ dummy_name \notin DOMAIN lbls))
        /\ UNCHANGED <<dummy_name, model, created>>

SelModelRun == \E t \in TimeLabels : CallSel(dummy_name :> ModelRun(t))

SelConstantOffset == \E p \in PeriodLabels : CallSel(dummy_name :> ConstantOffset(p))

SelConstantForecast == \E t \in ValidTimes : CallSel(dummy_name :> ConstantForecast(t))

SelBestEstimate == CallSel(dummy_name :> BestEstimate)

\* sel(forecast=BestEstimate(asof=t)): the argument is constructed first, and
\* sel is entered only if the constructor returns
SelBestEstimateAsof ==
    \E t \in TimeLabels :
        IF BestEstimatePostInit(TRUE, t) = "ok"
        THEN CallSel(dummy_name :> BestEstimateAsof(t))
        ELSE /\ pc = "idle"
             /\ pc' = "done"
             /\ labels' = (dummy_name :> BestEstimateAsof(t))
             /\ result' = Raise(BestEstimatePostInit(TRUE, t), <<>>)
             /\ UNCHANGED <<indexes, dummy_name, model, created, sliced>>

SelTime == \E t \in TimeLabels : CallSel(TimeName :> t)

SelPeriod == \E p \in FewPeriodLabels : CallSel(PeriodName :> p)

SelTimeAndPeriod ==
    \E t \in TimeLabels, p \in FewPeriodLabels :
        CallSel((TimeName :> t) @@ (PeriodName :> p))

\* the dummy key together with other keys
SelMixed ==
    \E q \in {ModelRun(GetItem(indexes.reference_time, 0)), BestEstimate},
       others \in (SUBSET {TimeName, PeriodName, "member"}) \ {{}} :
        CallSel((dummy_name :> q) @@ [k \in others |-> GetItem(indexes.reference_time, 0)])

\* no key of this index, or an unknown key alone
SelOther == \E ks \in {{}, {"member"}} : CallSel([k \in ks |-> 0])

Return ==
    /\ pc = "done"
    /\ pc' = "idle"
    /\ labels' = <<>>
    /\ result' = NoResult
    /\ UNCHANGED <<indexes, dummy_name, model, created, sliced>>

Next ==
    \/ SelModelRun
    \/ SelConstantOffset
    \/ SelConstantForecast
    \/ SelBestEstimate
    \/ SelBestEstimateAsof
    \/ SelTime
    \/ SelPeriod
    \/ SelTimeAndPeriod
    \/ SelMixed
    \/ SelOther
    \/ Return

Spec == Init /\ [][Next]_vars

----------------------------------------------------------------------------
(* Properties *)

T == indexes.reference_time
P == indexes.period

\* the call that has just finished was sel({dummy_name: <a query of `type`>})
Called(type) ==
    /\ pc = "done"
    /\ DOMAIN labels = {dummy_name}
    /\ labels[dummy_name].type = type

Arg == labels[dummy_name].arg

\* the positions of both axes a result selects
TimePositions(r) == Positions(r.time_idxr, Len(T))
PeriodPositions(r) == Positions(r.period_idxr, Len(P))

\* a cell is available when no model is set or, under HRRR, unless its period
\* exceeds 18h and its reference time's hour is not 6
AvailableCell(t, p) == model = "None" \/ ~(p > 18 /\ Hour(t) # 6)

SumsTo(target) ==
    {ij \in (1..Len(T)) \X (1..Len(P)) :
        T[ij[1]] + P[ij[2]] = target /\ AvailableCell(T[ij[1]], P[ij[2]])}

\* C1: a ConstantForecast query returns normally with two position arrays of
\* equal length; every returned pair of positions sums exactly to the target
\* valid time; and the result is empty iff no available pair sums to it.
C1_ConstantForecastJoin ==
    Called("ConstantForecast") =>
        /\ result.status = "ok"
        /\ result.time_idxr.kind = "array"
        /\ result.period_idxr.kind = "array"
        /\ Len(result.time_idxr.arr) = Len(result.period_idxr.arr)
        /\ \A k \in 1..Len(result.time_idxr.arr) :
              /\ result.time_idxr.arr[k] \in 0..(Len(T) - 1)
              /\ result.period_idxr.arr[k] \in 0..(Len(P) - 1)
              /\ T[result.time_idxr.arr[k] + 1] + P[result.period_idxr.arr[k] + 1] = Arg
        /\ (Len(result.time_idxr.arr) = 0) <=> (SumsTo(Arg) = {})

\* under HRRR some pair summing to the target is kept and another is masked
C1_Witness ==
    /\ Called("ConstantForecast")
    /\ model = "HRRR"
    /\ result.status = "ok"
    /\ Len(result.time_idxr.arr) > 0
    /\ \E i \in 1..Len(T), j \in 1..Len(P) :
          T[i] + P[j] = Arg /\ ~AvailableCell(T[i], P[j])

\* HRRR truncates the run of a reference time whose hour is no multiple of 6
Truncated(t) == model = "HRRR" /\ Hour(t) % 6 # 0

\* the number of periods of the axis in [0h, 18h]
RetainedCount == Cardinality({j \in 1..Len(P) : P[j] >= 0 /\ P[j] <= 18})

\* C2: ModelRun(r) for r on the reference-time axis resolves to the position
\* of r and to the full period range, or, when r is truncated, to exactly the
\* range [0, K) of the K periods retained for r; it varies along the period axis.
C2_ModelRunSelector ==
    (Called("ModelRun") /\ Arg \in Range(T)) =>
        /\ result.status = "ok"
        /\ result.time_idxr = IntSel(GetLoc(T, Arg))
        /\ result.period_idxr.kind = "slice"
        /\ PeriodPositions(result) =
              IF Truncated(Arg) THEN Arange(0, RetainedCount) ELSE Arange(0, Len(P))
        /\ result.valid_time_dim = PeriodName

\* the reference-time positions whose hour satisfies a condition
Hour6Positions ==
    SelectSeq(Arange(0, Len(T)), LAMBDA i : Hour(T[i + 1]) = 6)

CyclePositions ==
    SelectSeq(Arange(0, Len(T)), LAMBDA i : Hour(T[i + 1]) \in {0, 6, 12, 18})

\* C3 as stated: ConstantOffset(p) for p on the period axis resolves to the
\* position of p and to the full reference-time range, or, under HRRR with p
\* beyond 18h, to the array of the positions whose hour is exactly 6.
C3_ConstantOffsetHour6 ==
    (Called("ConstantOffset") /\ Arg \in Range(P)) =>
        /\ result.status = "ok"
        /\ result.period_idxr = IntSel(GetLoc(P, Arg))
        /\ result.time_idxr =
              IF model = "HRRR" /\ Arg > 18 THEN ArraySel(Hour6Positions) ELSE SliceAll

\* C3 as amended: ConstantOffset(p) for p on the period axis resolves to the
\* position of p and to the full reference-time range, or, under HRRR with p
\* beyond 18h, to the array of the positions whose hour is a multiple of 6.
C3_ConstantOffsetSelector ==
    (Called("ConstantOffset") /\ Arg \in Range(P)) =>
        /\ result.status = "ok"
        /\ result.period_idxr = IntSel(GetLoc(P, Arg))
        /\ result.time_idxr =
              IF model = "HRRR" /\ Arg > 18 THEN ArraySel(CyclePositions) ELSE SliceAll

\* under HRRR a period beyond 18h keeps a reference time at an hour other
\* than 6 and drops another reference time
C3_Witness ==
    /\ Called("ConstantOffset")
    /\ Arg \in Range(P)
    /\ model = "HRRR"
    /\ Arg > 18
    /\ result.status = "ok"
    /\ \E k \in 1..Len(result.time_idxr.arr) : Hour(T[result.time_idxr.arr[k] + 1]) # 6
    /\ Len(result.time_idxr.arr) < Len(T)

\* C4: ModelRun(r) with r off the reference-time axis, and ConstantOffset(p)
\* with p off the period axis, fail with NotFound (KeyError): no selection,
\* no selector position and no valid-time coordinate is returned.
C4_NotFound ==
    (\/ Called("ModelRun") /\ Arg \notin Range(T)
     \/ Called("ConstantOffset") /\ Arg \notin Range(P)) =>
        result = Raise("KeyError", <<labels[dummy_name].type>>)

\* the number of period positions ModelRun selects for reference time t
ModelRunCount(t) == IF Truncated(t) THEN Min(19, Len(P)) ELSE Len(P)

\* C5: on a period axis starting at zero, BestEstimate resolves to two
\* parallel arrays of length last_index + nsteps: (k, 0) for k < last_index,
\* then (last_index, k) for k < nsteps, where nsteps is the number of periods
\* ModelRun selects for that reference time; the result varies along the new
\* axis "valid_time" of that length.  Stated for asof unset (last_index =
\* N - 1): BestEstimate(asof=...) is never constructed, see C6.
C5_BestEstimateArrays ==
    (/\ Called("BestEstimate")
     /\ ~labels[dummy_name].has_arg
     /\ P[1] = 0) =>
        LET last_index == Len(T) - 1
            nsteps == ModelRunCount(T[last_index + 1])
        IN  /\ result.status = "ok"
            /\ result.time_idxr =
                  ArraySel([k \in 1..(last_index + nsteps) |->
                              IF k <= last_index THEN k - 1 ELSE last_index])
            /\ result.period_idxr =
                  ArraySel([k \in 1..(last_index + nsteps) |->
                              IF k <= last_index THEN 0 ELSE k - 1 - last_index])
            /\ result.valid_time_dim = "valid_time"
            /\ Len(result.valid_time) = last_index + nsteps

\* C6: on a period axis starting at zero, BestEstimate(asof = the last
\* reference time) resolves exactly as BestEstimate() does.
C6_AsofLastIsUnset ==
    (/\ Called("BestEstimate")
     /\ labels[dummy_name].has_arg
     /\ Arg = T[Len(T)]
     /\ P[1] = 0) =>
        result = Sel(indexes, dummy_name, model, dummy_name :> BestEstimate).out

\* C7: a request holding the dummy key together with any other key raises
\* ValueError before any strategy or per-axis lookup runs, and returns nothing.
C7_MixedRejected ==
    (/\ pc = "done"
     /\ dummy_name \in DOMAIN labels
     /\ Cardinality(DOMAIN labels) > 1) =>
        result = Raise("ValueError", <<>>)

\* the dummy key with a key that is neither axis name
C7_Witness ==
    /\ pc = "done"
    /\ DOMAIN labels = {dummy_name, "member"}
    /\ result.status = "ValueError"

\* C8: a successful cube-aware selection drops exactly the index's dummy
\* coordinate, whatever its name.
C8_DropsDummy ==
    (/\ pc = "done"
     /\ DOMAIN labels = {dummy_name}
     /\ result.status = "ok") =>
        result.drop_coords = <<dummy_name>>

\* C9: sel({time_name: r}) for r on the axis selects the same reference-time
\* position and the same period positions as sel({dummy: ModelRun(r)}), and
\* sel({period_name: p}) for p on the axis the same period position and the
\* same reference-time positions as sel({dummy: ConstantOffset(p)}).
C9_PlainIsCube ==
    /\ (pc = "done" /\ DOMAIN labels = {TimeName} /\ labels[TimeName] \in Range(T)) =>
          LET q == Sel(indexes, dummy_name, model,
                       dummy_name :> ModelRun(labels[TimeName])).out
          IN  /\ result.status = "ok"
              /\ q.status = "ok"
              /\ TimePositions(result) = TimePositions(q)
              /\ Range(PeriodPositions(result)) = Range(PeriodPositions(q))
    /\ (pc = "done" /\ DOMAIN labels = {PeriodName} /\ labels[PeriodName] \in Range(P)) =>
          LET q == Sel(indexes, dummy_name, model,
                       dummy_name :> ConstantOffset(labels[PeriodName])).out
          IN  /\ result.status = "ok"
              /\ q.status = "ok"
              /\ PeriodPositions(result) = PeriodPositions(q)
              /\ Range(TimePositions(result)) = Range(TimePositions(q))

\* the call that has just finished entered sel (its argument was constructed)
EnteredSel ==
    /\ pc = "done"
    /\ ~(Called("BestEstimate") /\ labels[dummy_name].has_arg)

\* C10: after any sequence of sel calls the index's axes, dummy name and model
\* are as constructed, and every call resolves as it does on the index as
\* constructed.
C10_SelLeavesIndex ==
    /\ indexes = created.indexes
    /\ dummy_name = created.dummy_name
    /\ model = created.model
    /\ EnteredSel =>
          result = Sel(created.indexes, created.dummy_name, created.model, labels).out

\* a cube-aware selection resolves after a plain-axis selection sub-selected
\* its copy of the axes
C10_Witness ==
    /\ sliced
    /\ Called("ModelRun")
    /\ result.status = "ok"

====
